---- MODULE Spec2Model ----
(***************************************************************************)
(* Model of the proxyflare Rust worker (workers/rust/src/lib.rs): the      *)
(* per-request pipeline of do_main (preflight, target resolution, query    *)
(* rewriting, header sanitising, fetch, response sanitising), the          *)
(* top-level error boundary main, and generate_random_ip.                  *)
(*                                                                         *)
(* Strings that the code inspects character by character (paths, query     *)
(* strings, target URLs, header values) are sequences of one-character     *)
(* strings.  Header names, methods and bodies are atomic strings.          *)
(* An Option<T> is a sequence of length 0 (None) or 1 (Some).              *)
(* The recursive helpers are functions, which apply to values.             *)
(***************************************************************************)
EXTENDS Integers, Sequences, FiniteSets, TLC

VARIABLES
    pc,                \* position of the handler in do_main / main
    req,               \* the inbound request: method, path, query, headers
    target_url_str,    \* Option<String> of lines 90-113
    target_url,        \* Option<Url>: the parsed, then rewritten, target
    headers,           \* the outbound Headers object of line 159
    has_forwarded_for, \* the flag of line 160
    fetch_request,     \* Option: the request handed to Fetch (line 193)
    fetches,           \* number of outbound calls made for this request
    upstream,          \* Option: the response the fetch resolved with
    response,          \* Option: the response main returned
    responses,         \* number of responses main returned for this request
    seed,              \* the timestamp Date::now() gave generate_random_ip
    ip                 \* Option<String>: what generate_random_ip returned

vars == <<pc, req, target_url_str, target_url, headers, has_forwarded_for,
          fetch_request, fetches, upstream, response, responses,
          seed, ip>>

None == <<>>
Some(x) == <<x>>

Str == Seq(STRING)            \* a String, character by character
Pair == Str \X Str            \* a decoded (key, value) query pair
Entry == STRING \X Str        \* a (name, value) header entry

(***************************************************************************)
(* Bounds of the model.                                                    *)
(***************************************************************************)
MaxHeaders == 2       \* inbound headers per request
MaxRespHeaders == 1   \* upstream response headers per response
SeedWindow == 120     \* timestamps T0 .. T0 + SeedWindow fed to the generator

(***************************************************************************)
(* str primitives used by the code.                                        *)
(***************************************************************************)
TrimStartMatches[s \in Str, c \in STRING] ==
    IF s # <<>> /\ Head(s) = c THEN TrimStartMatches[Tail(s), c] ELSE s

StartsWith(s, p) == Len(s) >= Len(p) /\ SubSeq(s, 1, Len(p)) = p

\* index of the first c in s, 0 when there is none
IndexFrom[s \in Str, c \in STRING, i \in Nat] ==
    IF i > Len(s) THEN 0 ELSE IF s[i] = c THEN i ELSE IndexFrom[s, c, i + 1]

IndexOf(s, c) == IndexFrom[s, c, 1]

\* str::split
SplitOn[s \in Str, c \in STRING] ==
    LET i == IndexOf(s, c)
    IN  IF i = 0 THEN <<s>>
        ELSE <<SubSeq(s, 1, i - 1)>> \o SplitOn[SubSeq(s, i + 1, Len(s)), c]

HTTP == <<"h", "t", "t", "p">>
HTTPS == <<"h", "t", "t", "p", "s">>

(***************************************************************************)
(* application/x-www-form-urlencoded, as the url crate parses and writes   *)
(* it (Url::query_pairs, Serializer::append_pair).                         *)
(***************************************************************************)
\* the ASCII letters and digits of the alphabet the inputs are written in
Alpha ==
    {"a", "b", "c", "d", "e", "f", "g", "h", "i", "j", "k", "l", "m",
     "n", "o", "p", "q", "r", "s", "t", "u", "v", "w", "x", "y", "z", "U"}
Digits == {"0", "1", "2", "3", "4", "5", "6", "7", "8", "9"}

\* bytes that byte_serialize leaves as they are
Unreserved == Alpha \cup Digits \cup {"*", "-", ".", "_"}

\* the bytes outside Unreserved that occur in the inputs, with their %XX form
PctTable ==
    {<<":", <<"3", "A">>>>, <<"/", <<"2", "F">>>>, <<"?", <<"3", "F">>>>,
     <<"=", <<"3", "D">>>>, <<"&", <<"2", "6">>>>, <<"%", <<"2", "5">>>>,
     <<"u", <<"7", "5">>>>}

percent_decode[s \in Str] ==
    IF s = <<>> THEN <<>>
    ELSE IF Head(s) = "+" THEN <<" ">> \o percent_decode[Tail(s)]
    ELSE IF Head(s) = "%" /\ Len(s) >= 3
            /\ \E e \in PctTable : e[2] = SubSeq(s, 2, 3)
         THEN LET e == CHOOSE e \in PctTable : e[2] = SubSeq(s, 2, 3)
              IN  <<e[1]>> \o percent_decode[SubSeq(s, 4, Len(s))]
    ELSE <<Head(s)>> \o percent_decode[Tail(s)]

byte_serialize[s \in Str] ==
    IF s = <<>> THEN <<>>
    ELSE IF Head(s) \in Unreserved THEN <<Head(s)>> \o byte_serialize[Tail(s)]
    ELSE IF Head(s) = " " THEN <<"+">> \o byte_serialize[Tail(s)]
    ELSE LET e == CHOOSE e \in PctTable : e[1] = Head(s)
         IN  <<"%">> \o e[2] \o byte_serialize[Tail(s)]

\* form_urlencoded::parse: split on '&', skip empty pieces, split each at
\* its first '=', decode name and value
ParsePieces[pieces \in Seq(Str)] ==
    IF pieces = <<>> THEN <<>>
    ELSE LET p == Head(pieces)
             i == IndexOf(p, "=")
             name == IF i = 0 THEN p ELSE SubSeq(p, 1, i - 1)
             value == IF i = 0 THEN <<>> ELSE SubSeq(p, i + 1, Len(p))
         IN  IF p = <<>> THEN ParsePieces[Tail(pieces)]
             ELSE <<<<percent_decode[name], percent_decode[value]>>>>
                  \o ParsePieces[Tail(pieces)]

\* Url::query_pairs on an Option<&str> query
query_pairs(query) ==
    IF query = None THEN <<>> ELSE ParsePieces[SplitOn[query[1], "&"]]

\* Serializer::append_pair on the query string being built
append_pair(q, k, v) ==
    (IF q = <<>> THEN <<>> ELSE q \o <<"&">>)
    \o byte_serialize[k] \o <<"=">> \o byte_serialize[v]

\* append_pair for each pair in turn
append_pairs[q \in Str, pairs \in Seq(Pair)] ==
    IF pairs = <<>> THEN q
    ELSE append_pairs[append_pair(q, pairs[1][1], pairs[1][2]), Tail(pairs)]

(***************************************************************************)
(* Url::parse without a base URL (the WHATWG parser of the url crate), for *)
(* inputs without userinfo, port, fragment or whitespace: a scheme is      *)
(* required; a special scheme requires a non-empty host; any other scheme  *)
(* parses with or without an authority.                                    *)
(***************************************************************************)
SchemeChars == Alpha \cup Digits \cup {"+", "-", "."}
SpecialSchemes == {HTTP, HTTPS}

UrlParse(s) ==
    LET i == IndexOf(s, ":")
    IN  IF i <= 1 \/ s[1] \notin Alpha \/ \E j \in 2..(i - 1) : s[j] \notin SchemeChars
        THEN None                           \* RelativeUrlWithoutBase
        ELSE
          LET scheme == SubSeq(s, 1, i - 1)
              rest == SubSeq(s, i + 1, Len(s))
              qi == IndexOf(rest, "?")
              hier == IF qi = 0 THEN rest ELSE SubSeq(rest, 1, qi - 1)
              query == IF qi = 0 THEN None ELSE Some(SubSeq(rest, qi + 1, Len(rest)))
              auth == IF scheme \in SpecialSchemes THEN TrimStartMatches[hier, "/"]
                      ELSE SubSeq(hier, 3, Len(hier))
              pi == IndexOf(auth, "/")
              host == IF pi = 0 THEN auth ELSE SubSeq(auth, 1, pi - 1)
              path == IF pi = 0 THEN <<>> ELSE SubSeq(auth, pi, Len(auth))
          IN  IF scheme \in SpecialSchemes
              THEN IF host = <<>> THEN None  \* EmptyHost
                   ELSE Some([scheme |-> scheme, host |-> Some(host),
                              path |-> IF path = <<>> THEN <<"/">> ELSE path,
                              query |-> query])
              ELSE IF StartsWith(hier, <<"/", "/">>)
              THEN Some([scheme |-> scheme, host |-> Some(host), path |-> path,
                         query |-> query])
              ELSE Some([scheme |-> scheme, host |-> None, path |-> hier,
                         query |-> query])

\* Url::as_str: the serialization
as_str(u) ==
    u.scheme \o <<":">>
    \o (IF u.host = None THEN <<>> ELSE <<"/", "/">> \o u.host[1])
    \o u.path
    \o (IF u.query = None THEN <<>> ELSE <<"?">> \o u.query[1])

(***************************************************************************)
(* generate_random_ip: a 64-bit LCG on the millisecond timestamp.  A u64   *)
(* is eight 8-bit limbs, least significant first, so that wrapping_mul and *)
(* wrapping_add keep their width.                                          *)
(***************************************************************************)
Byte == 256
LcgMul == <<45, 127, 149, 76, 45, 244, 81, 88>>   \* 6364136223846793005
LcgAdd == <<79, 129, 103, 247, 126, 123, 5, 20>>  \* 1442695040888963407
T0 == <<0, 104, 229, 207, 139, 1, 0, 0>>          \* 1700000000000 ms

\* propagate carries through the column sums cols[k..8], dropping bit 64 up
Carry[cols \in Seq(Nat), k \in Nat, c \in Nat] ==
    IF k > 8 THEN <<>>
    ELSE <<(cols[k] + c) % Byte>> \o Carry[cols, k + 1, (cols[k] + c) \div Byte]

ColSum[a \in Seq(Nat), b \in Seq(Nat), k \in Nat, i \in Nat] ==
    IF i > k THEN 0 ELSE a[i] * b[k - i + 1] + ColSum[a, b, k, i + 1]

wrapping_mul[a \in Seq(Nat), b \in Seq(Nat)] ==
    Carry[[k \in 1..8 |-> ColSum[a, b, k, 1]], 1, 0]
wrapping_add[a \in Seq(Nat), b \in Seq(Nat)] ==
    Carry[[k \in 1..8 |-> a[k] + b[k]], 1, 0]

U64(n) == Carry[[k \in 1..8 |-> IF k = 1 THEN n ELSE 0], 1, 0]

\* one step of the closure next_rand: the new seed
LcgStep[s \in Seq(Nat)] == wrapping_add[wrapping_mul[s, LcgMul], LcgAdd]
\* ((seed >> 32) & 0xFF) as u8
HighByte(s) == s[5]

\* format!("{}") of a u8
Digit(d) == CASE d = 0 -> "0" [] d = 1 -> "1" [] d = 2 -> "2" [] d = 3 -> "3"
              [] d = 4 -> "4" [] d = 5 -> "5" [] d = 6 -> "6" [] d = 7 -> "7"
              [] d = 8 -> "8" [] d = 9 -> "9"
FormatU8[n \in Nat] ==
    IF n >= 100 THEN <<Digit(n \div 100), Digit((n \div 10) % 10), Digit(n % 10)>>
    ELSE IF n >= 10 THEN <<Digit(n \div 10), Digit(n % 10)>>
    ELSE <<Digit(n)>>

FirstOctet(x) == IF x = 0 THEN 1 ELSE x

\* the seed after each of the first n calls of next_rand, after `seeds`
Draw[seeds \in Seq(Seq(Nat)), n \in Nat] ==
    IF n = 0 THEN seeds ELSE Draw[Append(seeds, LcgStep[seeds[Len(seeds)]]), n - 1]

\* lines 25-30 on the seeds of the four calls
FormatIp[seeds \in Seq(Seq(Nat))] ==
    FormatU8[FirstOctet(HighByte(seeds[2]))] \o <<".">> \o FormatU8[HighByte(seeds[3])]
    \o <<".">> \o FormatU8[HighByte(seeds[4])] \o <<".">> \o FormatU8[HighByte(seeds[5])]

generate_random_ip(now) == FormatIp[Draw[<<now>>, 4]]

URL_KEY == <<"u", "r", "l">>
CB_KEY == <<"_", "c", "b">>
T_KEY == <<"_", "t">>

\* inbound paths
P_ROOT == <<"/">>
P_HTTP == <<"/", "h", "t", "t", "p", ":", "/", "/", "a", "/", "y">>
P_SLASHES == <<"/", "/", "h", "t", "t", "p", "s", ":", "/", "/", "b">>
P_OTHER == <<"/", "x">>

\* inbound query strings
Q_EXAMPLE == <<"u", "r", "l", "=", "h", "t", "t", "p", ":", "/", "/", "a", "/", "d", "&", "_", "c", "b", "=", "1", "&", "p", "a", "g", "e", "=", "2">>
Q_DUP == <<"p", "a", "g", "e", "=", "2", "&", "u", "r", "l", "=", "h", "t", "t", "p", ":", "/", "/", "a", "?", "p", "a", "g", "e", "=", "1", "&", "_", "t", "=", "3", "&", "u", "r", "l", "=", "b">>
Q_CASE == <<"U", "r", "l", "=", "x", "&", "_", "t", "=", "1", "&", "q", "=", "a", "+", "b">>
Q_ENC == <<"%", "7", "5", "r", "l", "=", "n", "o", "t", "&", "_", "t", "=", "5">>
Q_NOHOST == <<"u", "r", "l", "=", "m", "a", ":", "a">>
Q_OWN == <<"u", "r", "l", "=", "h", "t", "t", "p", ":", "/", "/", "a", "?", "_", "c", "b", "=", "1">>

\* the value of the inbound X-Target-URL header
H_TARGET == <<"h", "t", "t", "p", "s", ":", "/", "/", "b", "/", "y", "?", "u", "r", "l", "=", "c", "&", "q", "=", "1">>

(***************************************************************************)
(* Headers: the runtime's Headers object, a map keyed by the lower-cased   *)
(* name that keeps the name and value last set.  Iterating it yields the   *)
(* entries sorted by lower-cased name.                                     *)
(***************************************************************************)
to_lowercase(name) ==
    CASE name = "Host" -> "host"
      [] name = "CF-Ray" -> "cf-ray"
      [] name = "X-My-X-Forwarded-For" -> "x-my-x-forwarded-for"
      [] name = "X-Forwarded-For" -> "x-forwarded-for"
      [] name = "X-Target-URL" -> "x-target-url"
      [] name = "Authorization" -> "authorization"
      [] name = "Content-Length" -> "content-length"
      [] name = "Transfer-Encoding" -> "transfer-encoding"
      [] name = "Access-Control-Allow-Origin" -> "access-control-allow-origin"
      [] name = "Access-Control-Allow-Methods" -> "access-control-allow-methods"
      [] name = "Access-Control-Allow-Headers" -> "access-control-allow-headers"
      [] OTHER -> name

HeadersNew == <<>>

HeadersSet(h, name, value) ==
    [k \in DOMAIN h \cup {to_lowercase(name)} |->
        IF k = to_lowercase(name) THEN [name |-> name, value |-> value] ELSE h[k]]

\* Headers::get: Option<String>, looked up case-insensitively
HeadersGet(h, name) ==
    IF to_lowercase(name) \in DOMAIN h THEN Some(h[to_lowercase(name)].value) ELSE None

\* the Headers object holding a list of (name, value) entries
HeadersOf[entries \in Seq(Entry)] ==
    IF entries = <<>> THEN HeadersNew
    ELSE HeadersSet(HeadersOf[SubSeq(entries, 1, Len(entries) - 1)],
                    entries[Len(entries)][1], entries[Len(entries)][2])

\* the entries of pool at the indices of I, in pool order
RECURSIVE Pick(_, _, _)
Pick(pool, I, k) ==
    IF k > Len(pool) THEN <<>>
    ELSE (IF k \in I THEN <<pool[k]>> ELSE <<>>) \o Pick(pool, I, k + 1)

SubLists(pool, max) ==
    {Pick(pool, I, 1) : I \in {J \in SUBSET (1..Len(pool)) : Cardinality(J) <= max}}

(***************************************************************************)
(* do_main and main.                                                       *)
(***************************************************************************)
\* the list without its last element
FILTERED_PARAMS_Short == {URL_KEY, CB_KEY}

FILTERED_PARAMS == {URL_KEY, CB_KEY, T_KEY}

ExcludedHeaders == {"host", "cf-connecting-ip", "cf-ipcountry", "cf-ray", "cf-visitor"}
StrippedResponseHeaders == {"content-encoding", "content-length", "transfer-encoding"}

\* "GET, POST, PUT, DELETE, OPTIONS, PATCH, HEAD"
ALLOW_METHODS ==
    <<
      "G", "E", "T", ",", " ", "P", "O", "S", "T", ",", " ", "P",
      "U", "T", ",", " ", "D", "E", "L", "E", "T", "E", ",", " ",
      "O", "P", "T", "I", "O", "N", "S", ",", " ", "P", "A", "T",
      "C", "H", ",", " ", "H", "E", "A", "D">>

\* the three headers.set calls of lines 77-82 and 209-214
SetCors(h) ==
    HeadersSet(HeadersSet(HeadersSet(h,
        "Access-Control-Allow-Origin", <<"*">>),
        "Access-Control-Allow-Methods", ALLOW_METHODS),
        "Access-Control-Allow-Headers", <<"*">>)

\* Response::error(msg, status)
ResponseError(msg, status) == [status |-> status, body |-> msg, headers |-> HeadersNew]

\* lines 93-98: the value of the first pair whose key is "url"
FirstUrlParam[pairs \in Seq(Pair)] ==
    IF pairs = <<>> THEN None
    ELSE IF pairs[1][1] = URL_KEY THEN Some(pairs[1][2])
    ELSE FirstUrlParam[Tail(pairs)]

\* the header consulted first, whatever the query gave
HeaderTarget_Unguarded(r, found) ==
    IF HeadersGet(HeadersOf[r.headers], "X-Target-URL") # None
    THEN HeadersGet(HeadersOf[r.headers], "X-Target-URL")
    ELSE found

\* lines 101-105: the header is consulted only when the query gave nothing
HeaderTarget(r, found) ==
    IF found = None THEN HeadersGet(HeadersOf[r.headers], "X-Target-URL") ELSE found

\* lines 108-113: the path is consulted only when neither gave anything
PathPrefix(path) == TrimStartMatches[path, "/"]

PathTarget(r, found) ==
    IF found = None /\ r.path # <<"/">> /\ StartsWith(PathPrefix(r.path), HTTP)
    THEN Some(PathPrefix(r.path))
    ELSE found

ResolveTargetStr(r) == PathTarget(r, HeaderTarget(r, FirstUrlParam[query_pairs(r.query)]))

\* the .filter(|(k, _)| !FILTERED_PARAMS.contains(k)) of lines 133 and 141
Unfiltered(pairs) == SelectSeq(pairs, LAMBDA p : p[1] \notin FILTERED_PARAMS)

\* the two loops of lines 149-154 in the other order
RewriteUrl_ExtraFirst(u, inboundQuery) ==
    LET extra_params == Unfiltered(query_pairs(inboundQuery))
        existing == Unfiltered(query_pairs(u.query))
    IN  IF existing = <<>> /\ extra_params = <<>>
        THEN [u EXCEPT !.query = None]
        ELSE [u EXCEPT !.query = Some(append_pairs[append_pairs[<<>>, extra_params], existing])]

\* lines 131-156
RewriteUrl(u, inboundQuery) ==
    LET extra_params == Unfiltered(query_pairs(inboundQuery))
        existing == Unfiltered(query_pairs(u.query))
    IN  IF existing = <<>> /\ extra_params = <<>>
        THEN [u EXCEPT !.query = None]
        ELSE [u EXCEPT !.query = Some(append_pairs[append_pairs[<<>>, existing], extra_params])]

\* the match on the key as written, not on key_lower
CopyHeader_CaseSensitive(h, key, value) ==
    IF key \in ExcludedHeaders THEN h
    ELSE IF key = "x-my-x-forwarded-for" THEN HeadersSet(h, "X-Forwarded-For", value)
    ELSE HeadersSet(h, key, value)

\* one iteration of the loop of lines 161-173 on the Headers being built
CopyHeader(h, key, value) ==
    IF to_lowercase(key) \in ExcludedHeaders THEN h
    ELSE IF to_lowercase(key) = "x-my-x-forwarded-for" THEN HeadersSet(h, "X-Forwarded-For", value)
    ELSE HeadersSet(h, key, value)

\* the Headers being built after the first n iterations of the loop
CopyHeaders[entries \in Seq(Entry), n \in Nat] ==
    IF n = 0 THEN HeadersNew
    ELSE CopyHeader(CopyHeaders[entries, n - 1], entries[n][1], entries[n][2])

\* the flag also set by a copied X-Forwarded-For
HasOverride_AnyForwardedFor(entries) ==
    \E i \in 1..Len(entries) :
        to_lowercase(entries[i][1]) \in {"x-my-x-forwarded-for", "x-forwarded-for"}

\* the flag of lines 160-168 after the loop
HasOverride(entries) ==
    \E i \in 1..Len(entries) : to_lowercase(entries[i][1]) = "x-my-x-forwarded-for"

\* lines 183-190: the body is attached for methods other than GET and HEAD
AttachBody(r) == r.method # "GET" /\ r.method # "HEAD" /\ r.body

\* the match on the key as written, not on key_lower
CopyResponseHeader_CaseSensitive(h, key, value) ==
    IF key \in StrippedResponseHeaders THEN h ELSE HeadersSet(h, key, value)

\* one iteration of the loop of lines 198-206
CopyResponseHeader(h, key, value) ==
    IF to_lowercase(key) \in StrippedResponseHeaders THEN h ELSE HeadersSet(h, key, value)

\* new_headers after the first n iterations of the loop
CopyResponseHeaders[entries \in Seq(Entry), n \in Nat] ==
    IF n = 0 THEN HeadersNew
    ELSE CopyResponseHeader(CopyResponseHeaders[entries, n - 1], entries[n][1], entries[n][2])

\* lines 218-229: the streamed body, or the empty fallback
FinalResponse(up) ==
    [status |-> up.status,
     body |-> IF up.stream THEN "stream" ELSE "",
     headers |-> SetCors(CopyResponseHeaders[up.headers, Len(up.headers)])]

\* main, lines 59-65: an Err of do_main becomes one 500 response
MainErr == ResponseError("Debug Error", 500)

(***************************************************************************)
(* Inputs.                                                                 *)
(***************************************************************************)
Methods == {"OPTIONS", "GET", "POST"}

Paths == {P_ROOT, P_HTTP, P_SLASHES, P_OTHER}

Queries == {None, Some(Q_EXAMPLE), Some(Q_DUP), Some(Q_CASE), Some(Q_ENC),
            Some(Q_NOHOST), Some(Q_OWN)}

\* inbound headers, sorted by lower-cased name as the runtime iterates them
HeaderPool ==
    <<<<"Authorization", <<"t">>>>,
      <<"cf-connecting-ip", <<"1">>>>,
      <<"cf-ipcountry", <<"x">>>>,
      <<"CF-Ray", <<"r">>>>,
      <<"cf-visitor", <<"y">>>>,
      <<"Host", <<"p">>>>,
      <<"x-forwarded-for", <<"8", ".", "8">>>>,
      <<"X-My-X-Forwarded-For", <<"9", ".", "9">>>>,
      <<"x-target-url", H_TARGET>>>>

\* a POST carries a body stream, an OPTIONS or GET request none
Requests ==
    {[method |-> m, path |-> p, query |-> q, headers |-> h, body |-> (m = "POST")] :
        m \in Methods, p \in Paths, q \in Queries, h \in SubLists(HeaderPool, MaxHeaders)}

\* the timestamps Date::now() returns inside the pipeline
NowSet == {T0, wrapping_add[T0, U64(11)]}

\* upstream response headers, sorted by lower-cased name
ResponseHeaderPool ==
    <<<<"access-control-allow-origin", <<"o">>>>,
      <<"content-encoding", <<"x">>>>,
      <<"Content-Length", <<"5">>>>,
      <<"content-type", <<"t">>>>,
      <<"Transfer-Encoding", <<"c">>>>>>

\* a 204 has a null body (Response::stream fails), the others stream
UpstreamResponses ==
    [status : {200, 404}, stream : {TRUE}, headers : SubLists(ResponseHeaderPool, MaxRespHeaders)]
    \cup
    [status : {204}, stream : {FALSE}, headers : SubLists(ResponseHeaderPool, MaxRespHeaders)]

\* the timestamps of the generator's own specification
Seeds == {wrapping_add[T0, U64(d)] : d \in 0..SeedWindow}

(***************************************************************************)
(* The handler as a state machine: one request at a time, one action per   *)
(* numbered section of do_main; the fetch is the only suspension point.    *)
(***************************************************************************)
Init ==
    /\ pc = "idle"
    /\ req = None
    /\ target_url_str = None
    /\ target_url = None
    /\ headers = HeadersNew
    /\ has_forwarded_for = FALSE
    /\ fetch_request = None
    /\ fetches = 0
    /\ upstream = None
    /\ response = None
    /\ responses = 0
    /\ seed = T0
    /\ ip = None

\* the runtime invokes main with a request (line 58)
Receive ==
    /\ pc = "idle"
    /\ \E r \in Requests : req' = Some(r)
    /\ pc' = "preflight"
    /\ target_url_str' = None
    /\ target_url' = None
    /\ headers' = HeadersNew
    /\ has_forwarded_for' = FALSE
    /\ fetch_request' = None
    /\ fetches' = 0
    /\ upstream' = None
    /\ response' = None
    /\ responses' = 0
    /\ ip' = None
    /\ UNCHANGED seed

\* do_main returns Ok(resp) or main turns its Err into a response
Return(resp) ==
    /\ response' = Some(resp)
    /\ responses' = responses + 1
    /\ pc' = "done"

\* do_main without the preflight branch
Preflight_Skipped ==
    /\ pc = "preflight"
    /\ pc' = "resolve"
    /\ UNCHANGED <<req, target_url_str, target_url, headers, has_forwarded_for,
                   fetch_request, fetches, upstream, response, responses, seed, ip>>

\* 0. Handle CORS preflight (lines 72-85)
Preflight ==
    /\ pc = "preflight"
    /\ IF req[1].method = "OPTIONS"
       THEN Return([status |-> 204, body |-> "", headers |-> SetCors(HeadersNew)])
       ELSE pc' = "resolve" /\ UNCHANGED <<response, responses>>
    /\ UNCHANGED <<req, target_url_str, target_url, headers, has_forwarded_for,
                   fetch_request, fetches, upstream, seed, ip>>

\* 1. Parse the target URL (lines 87-121)
ResolveTarget ==
    /\ pc = "resolve"
    /\ target_url_str' = ResolveTargetStr(req[1])
    /\ IF target_url_str' = None
       THEN Return(ResponseError("Missing target URL", 400))
       ELSE pc' = "validate" /\ UNCHANGED <<response, responses>>
    /\ UNCHANGED <<req, target_url, headers, has_forwarded_for,
                   fetch_request, fetches, upstream, seed, ip>>

\* the parse error propagated with `?` to main
ValidateUrl_Propagated ==
    /\ pc = "validate"
    /\ target_url' = UrlParse(target_url_str[1])
    /\ IF target_url' = None
       THEN Return(MainErr)
       ELSE pc' = "rewrite" /\ UNCHANGED <<response, responses>>
    /\ UNCHANGED <<req, target_url_str, headers, has_forwarded_for,
                   fetch_request, fetches, upstream, seed, ip>>

\* Validate URL (lines 123-127)
ValidateUrl ==
    /\ pc = "validate"
    /\ target_url' = UrlParse(target_url_str[1])
    /\ IF target_url' = None
       THEN Return(ResponseError("Invalid target URL", 400))
       ELSE pc' = "rewrite" /\ UNCHANGED <<response, responses>>
    /\ UNCHANGED <<req, target_url_str, headers, has_forwarded_for,
                   fetch_request, fetches, upstream, seed, ip>>

\* Filter out cache-buster and routing query params (lines 129-156)
RewriteQuery ==
    /\ pc = "rewrite"
    /\ target_url' = Some(RewriteUrl(target_url[1], req[1].query))
    /\ pc' = "headers"
    /\ UNCHANGED <<req, target_url_str, headers, has_forwarded_for, fetch_request,
                   fetches, upstream, response, responses, seed, ip>>

\* 2. Prepare headers: the copy/rename loop (lines 159-173)
PrepareHeaders ==
    /\ pc = "headers"
    /\ headers' = CopyHeaders[req[1].headers, Len(req[1].headers)]
    /\ has_forwarded_for' = HasOverride(req[1].headers)
    /\ pc' = "forwarded"
    /\ UNCHANGED <<req, target_url_str, target_url, fetch_request,
                   fetches, upstream, response, responses, seed, ip>>

\* lines 174-176: the synthetic X-Forwarded-For
ForwardedFor ==
    /\ pc = "forwarded"
    /\ IF ~has_forwarded_for
       THEN \E now \in NowSet :
               /\ seed' = now
               /\ ip' = Some(generate_random_ip(now))
               /\ headers' = HeadersSet(headers, "X-Forwarded-For", ip'[1])
       ELSE UNCHANGED <<seed, ip, headers>>
    /\ pc' = "fetch"
    /\ UNCHANGED <<req, target_url_str, target_url, has_forwarded_for, fetch_request,
                   fetches, upstream, response, responses>>

\* 3. Request Body & Init, 4. Fetch: the call is issued (lines 178-194)
SendFetch ==
    /\ pc = "fetch"
    /\ fetch_request' = Some([url |-> as_str(target_url[1]), method |-> req[1].method,
                              headers |-> headers, body |-> AttachBody(req[1])])
    /\ fetches' = fetches + 1
    /\ pc' = "await"
    /\ UNCHANGED <<req, target_url_str, target_url, headers, has_forwarded_for,
                   upstream, response, responses, seed, ip>>

\* the fetch resolves (the platform fetches http and https URLs only) and
\* do_main runs on to its end without suspending again:
\* 5. Process Response Headers, 6. Return Response (lines 196-229)
FetchOk ==
    /\ pc = "await"
    /\ target_url[1].scheme \in SpecialSchemes
    /\ \E r \in UpstreamResponses :
          /\ upstream' = Some(r)
          /\ Return(FinalResponse(r))
    /\ UNCHANGED <<req, target_url_str, target_url, headers, has_forwarded_for,
                   fetch_request, fetches, seed, ip>>

\* a failed fetch sent once more before the Err is returned
FetchErr_Retried ==
    /\ pc = "await"
    /\ IF fetches < 2
       THEN pc' = "fetch" /\ UNCHANGED <<response, responses>>
       ELSE Return(MainErr)
    /\ UNCHANGED <<req, target_url_str, target_url, headers, has_forwarded_for,
                   fetch_request, fetches, upstream, seed, ip>>

\* the fetch fails: `?` at line 194 returns the Err to main (lines 61-64)
FetchErr ==
    /\ pc = "await"
    /\ Return(MainErr)
    /\ UNCHANGED <<req, target_url_str, target_url, headers, has_forwarded_for,
                   fetch_request, fetches, upstream, seed, ip>>

\* main has returned: nothing of the request is kept (no persistent state)
Finish ==
    /\ pc = "done"
    /\ pc' = "idle"
    /\ req' = None
    /\ target_url_str' = None
    /\ target_url' = None
    /\ headers' = HeadersNew
    /\ has_forwarded_for' = FALSE
    /\ fetch_request' = None
    /\ fetches' = 0
    /\ upstream' = None
    /\ response' = None
    /\ responses' = 0
    /\ ip' = None
    /\ seed' = T0

Next ==
    \/ Receive
    \/ Preflight
    \/ ResolveTarget
    \/ ValidateUrl
    \/ RewriteQuery
    \/ PrepareHeaders
    \/ ForwardedFor
    \/ SendFetch
    \/ FetchOk
    \/ FetchErr
    \/ Finish

Spec == Init /\ [][Next]_vars

\* every step of the handler is taken, and the platform settles every fetch
Handle ==
    \/ Preflight
    \/ ResolveTarget
    \/ ValidateUrl
    \/ RewriteQuery
    \/ PrepareHeaders
    \/ ForwardedFor
    \/ SendFetch
    \/ FetchOk
    \/ FetchErr

\* one request from its arrival to its response
NextRequest == Receive \/ Handle

FairSpec == Init /\ [][NextRequest]_vars /\ WF_vars(Handle)

(***************************************************************************)
(* generate_random_ip on its own: called again and again, each call        *)
(* reading a timestamp.                                                    *)
(***************************************************************************)
InitIp ==
    /\ Init
    /\ seed \in Seeds

CallGenerate ==
    /\ ip = None
    /\ ip' = Some(generate_random_ip(seed))
    /\ UNCHANGED <<pc, req, target_url_str, target_url, headers, has_forwarded_for,
                   fetch_request, fetches, upstream, response, responses, seed>>

NextCall ==
    /\ ip # None
    /\ seed' \in Seeds
    /\ ip' = None
    /\ UNCHANGED <<pc, req, target_url_str, target_url, headers, has_forwarded_for,
                   fetch_request, fetches, upstream, response, responses>>

NextIp == CallGenerate \/ NextCall

SpecIp == InitIp /\ [][NextIp]_vars

(***************************************************************************)
(* Properties.                                                             *)
(***************************************************************************)
Min(I) == CHOOSE i \in I : \A j \in I : i <= j
Count(seq, p) == Cardinality({i \in 1..Len(seq) : seq[i] = p})
ReservedKeys == {<<"u", "r", "l">>, <<"_", "c", "b">>, <<"_", "t">>}
NotReserved(pairs) == SelectSeq(pairs, LAMBDA p : p[1] \notin ReservedKeys)

\* the request in hand is past target resolution
PastResolve == req # None /\ req[1].method # "OPTIONS" /\ pc \notin {"preflight", "resolve"}

\* the value of the first query pair whose key is exactly url
UrlParam(r) ==
    LET ps == query_pairs(r.query)
        I == {i \in 1..Len(ps) : ps[i][1] = <<"u", "r", "l">>}
    IN  IF I = {} THEN None ELSE Some(ps[Min(I)][2])

\* the value of the X-Target-URL header
TargetHeader(r) ==
    LET I == {i \in 1..Len(r.headers) : to_lowercase(r.headers[i][1]) = "x-target-url"}
    IN  IF I = {} THEN None ELSE Some(r.headers[Min(I)][2])

RECURSIVE LeadingSlashes(_)
LeadingSlashes(path) ==
    IF path # <<>> /\ path[1] = "/" THEN 1 + LeadingSlashes(Tail(path)) ELSE 0

\* the target the resolution order gives, the path cut by `strip`
TargetByOrder(r, strip(_)) ==
    LET byQuery == UrlParam(r)
        byHeader == TargetHeader(r)
    IN  IF byQuery # None THEN byQuery
        ELSE IF byHeader # None THEN byHeader
        ELSE IF r.path # <<"/">> /\ StartsWith(strip(r.path), <<"h", "t", "t", "p">>)
             THEN Some(strip(r.path))
        ELSE None

\* target resolution has just ended: with a value, or with none and the
\* request answered
Resolved ==
    /\ req # None /\ req[1].method # "OPTIONS"
    /\ pc = "validate" \/ (pc = "done" /\ target_url_str = None)

StripOne(path) == Tail(path)
StripAll(path) == SubSeq(path, LeadingSlashes(path) + 1, Len(path))

\* C1 as stated: query parameter url, else header X-Target-URL, else the
\* path with its one leading "/" stripped when the rest starts with http;
\* otherwise no target is resolved.
C1_AsStated == Resolved => target_url_str = TargetByOrder(req[1], StripOne)

\* C1 amended: the same order, the path with all its leading "/" stripped.
C1_TargetResolution == Resolved => target_url_str = TargetByOrder(req[1], StripAll)

\* the target came from a path with two leading slashes
C1_Witness ==
    /\ Resolved
    /\ req[1].path = P_SLASHES
    /\ UrlParam(req[1]) = None /\ TargetHeader(req[1]) = None
    /\ target_url_str = Some(<<"h", "t", "t", "p", "s", ":", "/", "/", "b">>)

\* the outbound call has been issued and has not settled yet
InFlight == pc = "await"

\* the query pairs of the URL handed to the fetch, of the target value as
\* resolved, and of the inbound request
OutPairs == query_pairs(UrlParse(fetch_request[1].url)[1].query)
OwnPairs == query_pairs(UrlParse(target_url_str[1])[1].query)
InPairs == query_pairs(req[1].query)

\* C2: no pair of the outbound URL has a key in {url, _cb, _t}, whatever
\* the source of the target and of the reserved key, and every pair with
\* another key, of the target's own query or of the inbound query, is kept.
C2_ReservedNeverForwarded ==
    InFlight =>
        LET out == OutPairs
            given == OwnPairs \o InPairs
        IN  /\ \A i \in 1..Len(out) : out[i][1] \notin ReservedKeys
            /\ \A i \in 1..Len(given) :
                  given[i][1] \notin ReservedKeys =>
                     Count(out, given[i]) = Count(given, given[i])

\* a header-supplied target carrying url= itself, an inbound query carrying _t
C2_Witness ==
    /\ InFlight
    /\ UrlParam(req[1]) = None /\ TargetHeader(req[1]) # None
    /\ \E i \in 1..Len(OwnPairs) : OwnPairs[i][1] = <<"u", "r", "l">>
    /\ \E i \in 1..Len(InPairs) : InPairs[i][1] = <<"_", "t">>
    /\ Len(OutPairs) >= 2

DigitValue(c) == CHOOSE d \in 0..9 : Digit(d) = c

\* str::parse::<u8> of a decimal string, as the tests do; -1 for Err
RECURSIVE ParseDecimal(_, _)
ParseDecimal(s, acc) ==
    IF s = <<>> THEN acc
    ELSE IF Head(s) \notin Digits THEN -1
    ELSE ParseDecimal(Tail(s), 10 * acc + DigitValue(Head(s)))

ParseOctet(s) == IF s = <<>> \/ Len(s) > 3 THEN -1 ELSE ParseDecimal(s, 0)

\* C3: every string generate_random_ip returns has exactly four
\* dot-separated octets and each of the four is an integer in 1..255.
C3_EveryOctetNonzero ==
    ip # None =>
        /\ Len(SplitOn[ip[1], "."]) = 4
        /\ \A i \in 1..4 : ParseOctet(SplitOn[ip[1], "."][i]) \in 1..255

\* a valid scheme followed by ':'
HasScheme(s) ==
    LET i == IndexOf(s, ":")
    IN  i > 1 /\ s[1] \in Alpha /\ \A j \in 2..(i - 1) : s[j] \in SchemeChars

\* the host of an absolute URL string, empty when it has none
HostOf(s) ==
    LET i == IndexOf(s, ":")
        scheme == SubSeq(s, 1, i - 1)
        rest == SubSeq(s, i + 1, Len(s))
        auth == IF scheme \in {<<"h", "t", "t", "p">>, <<"h", "t", "t", "p", "s">>}
                THEN SubSeq(rest, LeadingSlashes(rest) + 1, Len(rest))
                ELSE IF StartsWith(rest, <<"/", "/">>) THEN SubSeq(rest, 3, Len(rest))
                ELSE <<>>
        ends == {k \in 1..Len(auth) : auth[k] \in {"/", "?"}}
    IN  IF ends = {} THEN auth ELSE SubSeq(auth, 1, Min(ends) - 1)

HasHost(s) == HasScheme(s) /\ HostOf(s) # <<>>

\* absolute: a scheme, and a host when the scheme is http or https
IsAbsolute(s) ==
    /\ HasScheme(s)
    /\ SubSeq(s, 1, IndexOf(s, ":") - 1)
          \in {<<"h", "t", "t", "p">>, <<"h", "t", "t", "p", "s">>} => HostOf(s) # <<>>

Answered(status, body) ==
    /\ response # None
    /\ response[1].status = status
    /\ response[1].body = body
    /\ fetches = 0

\* C4 with `valid` as what makes a target value acceptable: a fetch is made
\* only for a valid target value; no target value is answered 400 "Missing
\* target URL", an invalid one 400 "Invalid target URL", both before any
\* fetch.
TargetChecked(valid(_)) ==
    /\ fetches > 0 => target_url_str # None /\ valid(target_url_str[1])
    /\ (PastResolve /\ pc = "done" /\ target_url_str = None)
          => Answered(400, "Missing target URL")
    /\ (PastResolve /\ pc = "done" /\ target_url_str # None /\ ~valid(target_url_str[1]))
          => Answered(400, "Invalid target URL")

\* C4 as stated: valid means an absolute URL with scheme and host.
C4_AsStated == TargetChecked(HasHost)

\* C4 amended: valid means an absolute URL; a scheme other than http and
\* https needs no host.
C4_RejectedBeforeFetch == TargetChecked(IsAbsolute)

\* a target value that is no absolute URL has been answered 400
C4_Witness ==
    /\ PastResolve /\ pc = "done"
    /\ target_url_str = Some(<<"n", "o", "t">>)
    /\ Answered(400, "Invalid target URL")

\* the inbound header with this lower-cased name, as an Option of its value
Inbound(name) ==
    LET hs == req[1].headers
        I == {i \in 1..Len(hs) : to_lowercase(hs[i][1]) = name}
    IN  IF I = {} THEN None ELSE Some(hs[Min(I)][2])

\* the X-Forwarded-For value of the outbound request
OutboundForwardedFor == fetch_request[1].headers["x-forwarded-for"]

\* an inbound x-my-x-forwarded-for: V gives X-Forwarded-For: V and no
\* synthetic value
OverrideWins ==
    (InFlight /\ Inbound("x-my-x-forwarded-for") # None) =>
        /\ "x-forwarded-for" \in DOMAIN fetch_request[1].headers
        /\ OutboundForwardedFor =
              [name |-> "X-Forwarded-For", value |-> Inbound("x-my-x-forwarded-for")[1]]
        /\ ip = None

\* C5 as stated: the override wins, and the step after the copy/rename
\* pass generates a synthetic identity if and only if the pass left no
\* X-Forwarded-For on the outbound headers.
C5_AsStated ==
    /\ []OverrideWins
    /\ [][pc = "forwarded" => ((ip' # None) <=> ("x-forwarded-for" \notin DOMAIN headers))]_vars

\* C5 amended: the override wins; a synthetic identity is generated if and
\* only if the inbound request has no x-my-x-forwarded-for header, and it
\* is then the outbound X-Forwarded-For, replacing a copied one.
C5_ForwardedFor ==
    /\ OverrideWins
    /\ InFlight =>
          /\ (ip # None) <=> (Inbound("x-my-x-forwarded-for") = None)
          /\ ip # None =>
                /\ "x-forwarded-for" \in DOMAIN fetch_request[1].headers
                /\ OutboundForwardedFor = [name |-> "X-Forwarded-For", value |-> ip[1]]

\* the override and an inbound X-Forwarded-For together: the override is sent
C5_Witness ==
    /\ InFlight
    /\ Inbound("x-my-x-forwarded-for") = Some(<<"9", ".", "9">>)
    /\ Inbound("x-forwarded-for") = Some(<<"8", ".", "8">>)
    /\ OutboundForwardedFor.value = <<"9", ".", "9">>
    /\ ip = None

PlatformHeaders == {"host", "cf-connecting-ip", "cf-ipcountry", "cf-ray", "cf-visitor"}

\* none of the platform headers is on the outbound request, and every
\* inbound header whose lower-cased name is outside `except` is there with
\* its name and value
HeadersForwarded(except) ==
    InFlight =>
        LET out == fetch_request[1].headers
            hs == req[1].headers
        IN  /\ DOMAIN out \cap PlatformHeaders = {}
            /\ \A i \in 1..Len(hs) :
                  to_lowercase(hs[i][1]) \notin except =>
                     /\ to_lowercase(hs[i][1]) \in DOMAIN out
                     /\ out[to_lowercase(hs[i][1])] = [name |-> hs[i][1], value |-> hs[i][2]]

\* C6 as stated: every inbound header other than the five platform headers
\* and the override header is forwarded with its name and value.
C6_AsStated == HeadersForwarded(PlatformHeaders \cup {"x-my-x-forwarded-for"})

\* C6 amended: every inbound header other than the five platform headers,
\* the override header and X-Forwarded-For is forwarded with its name and
\* value.
C6_HeadersForwarded ==
    HeadersForwarded(PlatformHeaders \cup {"x-my-x-forwarded-for", "x-forwarded-for"})

\* a platform header written in upper case is dropped beside one that passes
C6_Witness ==
    /\ InFlight
    /\ Inbound("authorization") # None
    /\ Inbound("cf-ray") # None
    /\ DOMAIN fetch_request[1].headers = {"authorization", "x-forwarded-for"}

FramingHeaders == {"content-encoding", "content-length", "transfer-encoding"}
CorsHeaders ==
    [k \in {"access-control-allow-origin", "access-control-allow-methods",
            "access-control-allow-headers"} |->
        CASE k = "access-control-allow-origin" ->
                [name |-> "Access-Control-Allow-Origin", value |-> <<"*">>]
          [] k = "access-control-allow-methods" ->
                [name |-> "Access-Control-Allow-Methods", value |-> ALLOW_METHODS]
          [] k = "access-control-allow-headers" ->
                [name |-> "Access-Control-Allow-Headers", value |-> <<"*">>]]

\* C7: a proxied response has the upstream status, none of the three
\* framing headers, the three CORS headers with their fixed values and
\* every other upstream header as it was; without an upstream body the
\* body is empty, with the same status and headers.
C7_ResponseRelayed ==
    (pc = "done" /\ upstream # None) =>
        LET up == upstream[1]
            resp == response[1]
        IN  /\ resp.status = up.status
            /\ DOMAIN resp.headers \cap FramingHeaders = {}
            /\ \A k \in DOMAIN CorsHeaders :
                  k \in DOMAIN resp.headers /\ resp.headers[k] = CorsHeaders[k]
            /\ \A i \in 1..Len(up.headers) :
                  to_lowercase(up.headers[i][1]) \notin FramingHeaders \cup DOMAIN CorsHeaders =>
                     /\ to_lowercase(up.headers[i][1]) \in DOMAIN resp.headers
                     /\ resp.headers[to_lowercase(up.headers[i][1])] =
                           [name |-> up.headers[i][1], value |-> up.headers[i][2]]
            /\ resp.body = (IF up.stream THEN "stream" ELSE "")

\* an upstream response without a body, carrying a framing header
C7_Witness ==
    /\ pc = "done" /\ upstream # None
    /\ ~upstream[1].stream
    /\ upstream[1].headers = <<<<"Content-Length", <<"5">>>>>>
    /\ response[1] = [status |-> 204, body |-> "", headers |-> CorsHeaders]

\* C8: the outbound query is the target's own pairs outside {url, _cb, _t}
\* in order, then the inbound pairs outside it in order, duplicates kept;
\* when there are none the outbound URL has no query component, no "?".
C8_QueryOrder ==
    InFlight =>
        LET expected == NotReserved(OwnPairs) \o NotReserved(InPairs)
        IN  /\ OutPairs = expected
            /\ expected = <<>> => IndexOf(fetch_request[1].url, "?") = 0

\* page=1 of the target, then page=2 of the inbound query: both kept
C8_Witness ==
    /\ InFlight
    /\ OutPairs = <<<<<<"p", "a", "g", "e">>, <<"1">>>>, <<<<"p", "a", "g", "e">>, <<"2">>>>>>

\* C9: an OPTIONS request, whatever its path, query and headers, is
\* answered 204 with an empty body and the three CORS headers, and nothing
\* else is done for it: no target resolution, no header rewriting, no fetch.
C9_PreflightFirst ==
    (req # None /\ req[1].method = "OPTIONS") =>
        /\ pc \in {"preflight", "done"}
        /\ target_url_str = None /\ target_url = None
        /\ headers = HeadersNew /\ ~has_forwarded_for /\ ip = None
        /\ fetch_request = None /\ fetches = 0 /\ upstream = None
        /\ pc = "done" =>
              /\ response = Some([status |-> 204, body |-> "", headers |-> CorsHeaders])
              /\ responses = 1

\* an OPTIONS request that names no target has its 204
C9_Witness ==
    /\ req # None /\ req[1].method = "OPTIONS"
    /\ req[1].path = <<"/">> /\ req[1].query = None /\ req[1].headers = <<>>
    /\ pc = "done" /\ response[1].status = 204

\* a request is being handled
Handling == pc \notin {"idle", "done"}

\* at most one response and one fetch per request; a returned request has
\* exactly one response; a failed fetch gives a 500 with the diagnostic
OneResponse ==
    /\ responses <= 1 /\ fetches <= 1
    /\ Handling => responses = 0
    /\ pc = "done" => responses = 1 /\ response # None
    /\ (pc = "done" /\ fetches = 1 /\ upstream = None) =>
          response[1].status = 500 /\ response[1].body = "Debug Error"

\* C10: every request eventually yields exactly one response, at most one
\* fetch is made for it, and a failed fetch yields a single 500 with a
\* diagnostic message, without a retry.
C10_ExactlyOneResponse ==
    /\ []OneResponse
    /\ (Handling ~> pc = "done")

\* the fetch failed and the request was answered 500
C10_Witness ==
    /\ pc = "done" /\ fetches = 1 /\ upstream = None
    /\ responses = 1 /\ response[1].status = 500

====
